---- MODULE Spec2Model ----
(***************************************************************************)
(* Model of the two FastAPI gateways of voicemessaging-wa:                 *)
(*   src/whatsapp_api_multisession.py  (multi-session gateway)             *)
(*   src/whatsapp_api.py               (single-session gateway)            *)
(*                                                                         *)
(* Python strings are modelled as sequences of one-character strings.      *)
(* Three specifications share the variables:                               *)
(*   SpecNorm   validate_phone_number applied to bounded raw inputs        *)
(*   Spec       one request through a gateway handler and the backend      *)
(*   SpecChats  the aggregation loops of get_chats on bounded messages     *)
(***************************************************************************)
EXTENDS Integers, Sequences, FiniteSets, TLC

VARIABLES
    rawInput,      \* SpecNorm: the raw string handed to validate_phone_number
    normResult,    \* SpecNorm: result of validate_phone_number(rawInput)
    renormResult,  \* SpecNorm: result of validate_phone_number on that result
    gateway,       \* Spec: "multi" or "single"
    handler,       \* Spec: the route function that received the request
    current,       \* Spec: the function whose backend call is in flight
    rawPhone,      \* Spec: the inbound identifier (path or body parameter)
    chatId,        \* Spec: the chat_id path parameter of get_chat_messages
    request,       \* Spec: the HTTP request the router dispatched, if any
    pc,            \* Spec: "idle", "awaiting", "replied", "done"
    calls,         \* Spec: backend calls issued by the request, in order
    replies,       \* Spec: what each backend call came back with
    outcome,       \* Spec: the HTTP outcome of the request
    messages,      \* SpecChats: the "messages" list of the backend's 200 body
    chatsGateway,  \* SpecChats: which gateway's get_chats runs
    chatsResult    \* SpecChats: what the aggregation block produced

vars == <<rawInput, normResult, renormResult, gateway, handler, current,
          rawPhone, chatId, request, pc, calls, replies, outcome, messages, chatsGateway,
          chatsResult>>

normVars == <<rawInput, normResult, renormResult>>
gwVars == <<gateway, handler, current, rawPhone, chatId, request, pc, calls, replies, outcome>>
chatVars == <<messages, chatsGateway, chatsResult>>

None == [tag |-> "none"]

----------------------------------------------------------------------------
(* Bounds                                                                  *)

MaxHead == 3    \* free characters at the start of a raw input
MaxRun  == 14   \* length of the run of '7' digits that follows them
MaxMsgs == 3    \* messages in the list get_chats aggregates
MaxTs   == 3    \* distinct timestamps

----------------------------------------------------------------------------
(* Characters                                                              *)

AsciiDigits == {"0", "1", "2", "3", "4", "5", "6", "7", "8", "9"}

\* A decimal digit outside ASCII (ARABIC-INDIC DIGIT THREE, U+0663): Python's
\* \d matches it in a str pattern, [1-9] does not.
UnicodeDigit == "U+0663"

\* The characters a raw input is drawn from.
Alphabet == {"0", "1", " ", "-", "(", ")", "+", "a", UnicodeDigit}

\* The characters the contract on raw inputs speaks about.
ContractChars == AsciiDigits \cup {" ", "-", "(", ")", "+"}

BoundedSeq(S, n) == UNION {[1..k -> S] : k \in 0..n}

Run(n) == [i \in 1..n |-> "7"]

RawInputs == {h \o Run(n) : h \in BoundedSeq(Alphabet, MaxHead), n \in 0..MaxRun}

----------------------------------------------------------------------------
(* validate_phone_number                                                   *)

\* re.sub(r'[\s\-\(\)\+]', '', phone)
StripClass == {" ", "-", "(", ")", "+"}

NotStripped(c) == c \notin StripClass

re_sub(phone) == SelectSeq(phone, NotStripped)

\* str.startswith
startswith(s, p) == Len(s) >= Len(p) /\ SubSeq(s, 1, Len(p)) = p

\* \d on a str pattern: any Unicode decimal digit
DigitClass == AsciiDigits \cup {UnicodeDigit}

\* [1-9]
NonZeroClass == AsciiDigits \ {"0"}

MaxFurtherDigits == 14

\* re.match(r'^\+[1-9]\d{1,14}$', phone)
re_match(phone) ==
    /\ Len(phone) >= 3
    /\ Len(phone) <= 2 + MaxFurtherDigits
    /\ phone[1] = "+"
    /\ phone[2] \in NonZeroClass
    /\ \A i \in 3..Len(phone) : phone[i] \in DigitClass

Returned(v) == [tag |-> "return", value |-> v]

HTTPException(code, text) == [tag |-> "raise", status_code |-> code, detail |-> text]

\* the prefix branch applied to every input, whatever it starts with
AddPrefix_always00(phone) == <<"+">> \o SubSeq(phone, 3, Len(phone))

\* phone after the if / elif that settles the prefix
AddPrefix(phone) ==
    IF ~(startswith(phone, <<"+">>) \/ startswith(phone, <<"0", "0">>))
    THEN <<"+">> \o phone
    ELSE IF startswith(phone, <<"0", "0">>)
         THEN <<"+">> \o SubSeq(phone, 3, Len(phone))
         ELSE phone

\* the format check dropped: the cleaned string is returned as it is
validate_phone_number_nocheck(phone) ==
    Returned(AddPrefix(re_sub(phone)))

validate_phone_number(phone) ==
    LET cleaned == AddPrefix(re_sub(phone))
    IN  IF ~re_match(cleaned)
        THEN HTTPException(400, "Invalid international phone number format")
        ELSE Returned(cleaned)

----------------------------------------------------------------------------
(* SpecNorm: validate_phone_number on bounded inputs                       *)

NormIdle ==
    /\ rawInput = <<>> /\ normResult = None /\ renormResult = None

GatewayIdle ==
    /\ gateway = "multi" /\ handler = "none" /\ current = "none"
    /\ rawPhone = <<>> /\ chatId = "none" /\ request = None /\ pc = "idle"
    /\ calls = <<>> /\ replies = <<>> /\ outcome = None

ChatsIdle ==
    /\ messages = <<>> /\ chatsGateway = "multi" /\ chatsResult = None

InitNorm ==
    /\ rawInput \in RawInputs
    /\ normResult = None
    /\ renormResult = None
    /\ GatewayIdle
    /\ ChatsIdle

Validate ==
    /\ normResult = None
    /\ normResult' = validate_phone_number(rawInput)
    /\ UNCHANGED <<rawInput, renormResult>>
    /\ UNCHANGED gwVars /\ UNCHANGED chatVars

Revalidate ==
    /\ normResult.tag = "return"
    /\ renormResult = None
    /\ renormResult' = validate_phone_number(normResult.value)
    /\ UNCHANGED <<rawInput, normResult>>
    /\ UNCHANGED gwVars /\ UNCHANGED chatVars

NextNorm == Validate \/ Revalidate

SpecNorm == InitNorm /\ [][NextNorm]_vars

----------------------------------------------------------------------------
(* Properties of validate_phone_number                                     *)

InContract(raw) == \A i \in 1..Len(raw) : raw[i] \in ContractChars

\* '+', one digit 1..9, then 1 to 14 further ASCII digits
IsCanonical(s) ==
    /\ Len(s) \in 3..16
    /\ s[1] = "+"
    /\ s[2] \in {"1", "2", "3", "4", "5", "6", "7", "8", "9"}
    /\ \A i \in 3..Len(s) : s[i] \in AsciiDigits

\* C1: for a raw input made only of ASCII digits, spaces, hyphens,
\* parentheses and '+', validate_phone_number either returns a string of the
\* canonical form or raises HTTPException 400 "Invalid international phone
\* number format"; it returns no other string.
C1_CanonicalOrInvalid ==
    (normResult # None /\ InContract(rawInput)) =>
        \/ normResult.tag = "return" /\ IsCanonical(normResult.value)
        \/ normResult = HTTPException(400, "Invalid international phone number format")

\* a raw input with a leading 00 and a separator was accepted and rewritten
C1_Witness ==
    /\ InContract(rawInput)
    /\ startswith(rawInput, <<"0", "0">>)
    /\ \E i \in 1..Len(rawInput) : rawInput[i] \in {" ", "-", "(", ")"}
    /\ normResult # None
    /\ normResult.tag = "return"
    /\ Len(normResult.value) = Len(rawInput) - 2

\* C2: whenever validate_phone_number accepts a raw input, applying it to
\* its own result succeeds and returns the same string.
C2_Idempotent ==
    renormResult # None =>
        /\ renormResult.tag = "return"
        /\ renormResult.value = normResult.value

\* the second application ran on a result that differs from the raw input
C2_Witness ==
    /\ renormResult # None
    /\ renormResult.tag = "return"
    /\ normResult.value # rawInput

----------------------------------------------------------------------------
(* Backend responses and handler outcomes                                  *)

\* Status codes the backend answers with.
StatusCodes == {200, 201, 400, 401, 404, 408, 500}

\* response.text, as the set of phrases the handlers search it for.
Phrases == {"Already authenticated", "Phone number is required"}

Contains(text, phrase) == phrase \in text

\* An exception no handler catches: the framework answers 500.
Unhandled(exc) == [tag |-> "unhandled", exception |-> exc]

\* The HTTP status the client of the gateway receives.
HttpStatus(o) ==
    IF o.tag = "return" THEN 200
    ELSE IF o.tag = "raise" THEN o.status_code
    ELSE 500

\* except httpx.RequestError: raise HTTPException(status_code=503, ...)
\* the transport failure reported as a backend error
OnRequestError_as500 == HTTPException(500, "Go service unavailable")

OnRequestError == HTTPException(503, "Go service unavailable")

\* response.json(): a plain dict, whatever response_model the route declares
JsonDict(resp) == [pytype |-> "dict", sessions |-> resp.sessions]

\* value.sessions: only a SessionListResponse object has the attribute
HasSessionsAttr(value) == value.pytype = "SessionListResponse"

----------------------------------------------------------------------------
(* Multi-session gateway: what each handler does with the response         *)

create_session(resp) ==
    IF resp.status_code = 200 THEN Returned(JsonDict(resp))
    ELSE HTTPException(500, "Failed to create session")

list_sessions(resp) ==
    IF resp.status_code = 200 THEN Returned(JsonDict(resp))
    ELSE HTTPException(500, "Failed to list sessions")

get_session_status(resp) ==
    IF resp.status_code = 200 THEN Returned(JsonDict(resp))
    ELSE IF resp.status_code = 404 THEN HTTPException(404, "Session not found")
    ELSE HTTPException(500, "Failed to get session status")

connect_session(resp) ==
    IF resp.status_code = 200 THEN Returned("Session connected successfully")
    ELSE IF resp.status_code = 404 THEN HTTPException(404, "Session not found")
    ELSE HTTPException(500, "Failed to connect session")

disconnect_session(resp) ==
    IF resp.status_code = 200 THEN Returned("Session disconnected successfully")
    ELSE IF resp.status_code = 404 THEN HTTPException(404, "Session not found")
    ELSE HTTPException(500, "Failed to disconnect session")

delete_session(resp) ==
    IF resp.status_code = 200 THEN Returned("Session deleted successfully")
    ELSE IF resp.status_code = 404 THEN HTTPException(404, "Session not found")
    ELSE HTTPException(500, "Failed to delete session")

\* every 4xx status handled by the 400 branch
get_qr_code_any4xx(resp) ==
    IF resp.status_code = 200 THEN Returned(JsonDict(resp))
    ELSE IF resp.status_code >= 400 /\ resp.status_code < 500
         THEN HTTPException(400, "Already authenticated or QR not available")
    ELSE IF resp.status_code = 404 THEN HTTPException(404, "Session not found")
    ELSE HTTPException(500, "Failed to get QR code")

get_qr_code(resp) ==
    IF resp.status_code = 200 THEN Returned(JsonDict(resp))
    ELSE IF resp.status_code = 400
         THEN HTTPException(400, "Already authenticated or QR not available")
    ELSE IF resp.status_code = 404 THEN HTTPException(404, "Session not found")
    ELSE HTTPException(500, "Failed to get QR code")

get_auth_status(resp) ==
    IF resp.status_code = 200 THEN Returned(JsonDict(resp))
    ELSE IF resp.status_code = 404 THEN HTTPException(404, "Session not found")
    ELSE HTTPException(500, "Failed to get auth status")

\* the 404 branch left out
pair_phone_no404(resp) ==
    IF resp.status_code = 200 THEN Returned(JsonDict(resp))
    ELSE IF resp.status_code = 400
         THEN IF Contains(resp.text, "Already authenticated")
              THEN HTTPException(400, "Already authenticated")
              ELSE HTTPException(400, "Failed to generate pairing code")
    ELSE HTTPException(500, "Failed to generate pairing code")

pair_phone(resp) ==
    IF resp.status_code = 200 THEN Returned(JsonDict(resp))
    ELSE IF resp.status_code = 400
         THEN IF Contains(resp.text, "Already authenticated")
              THEN HTTPException(400, "Already authenticated")
              ELSE HTTPException(400, "Failed to generate pairing code")
    ELSE IF resp.status_code = 404 THEN HTTPException(404, "Session not found")
    ELSE HTTPException(500, "Failed to generate pairing code")

get_messages(resp) ==
    IF resp.status_code = 200 THEN Returned(JsonDict(resp))
    ELSE IF resp.status_code = 404 THEN HTTPException(404, "Session not found")
    ELSE HTTPException(500, "Failed to get messages")

get_chat_messages(resp) ==
    IF resp.status_code = 200 THEN Returned(JsonDict(resp))
    ELSE IF resp.status_code = 404
         THEN HTTPException(404, "Session or chat not found")
    ELSE HTTPException(500, "Failed to get chat messages")

\* every status below 300 taken for success
update_read_status_2xx(resp) ==
    IF resp.status_code < 300 THEN Returned("Read status updated successfully")
    ELSE IF resp.status_code = 404
         THEN HTTPException(404, "Session or message not found")
    ELSE IF resp.status_code = 400 THEN HTTPException(400, "Invalid request")
    ELSE HTTPException(500, "Failed to update read status")

update_read_status(resp) ==
    IF resp.status_code = 200 THEN Returned("Read status updated successfully")
    ELSE IF resp.status_code = 404
         THEN HTTPException(404, "Session or message not found")
    ELSE IF resp.status_code = 400 THEN HTTPException(400, "Invalid request")
    ELSE HTTPException(500, "Failed to update read status")

get_unread_count(resp) ==
    IF resp.status_code = 200 THEN Returned(JsonDict(resp))
    ELSE IF resp.status_code = 404 THEN HTTPException(404, "Session not found")
    ELSE HTTPException(500, "Failed to get unread count")

----------------------------------------------------------------------------
(* get_chats: the aggregation of the message list                          *)
(* A message is [chat_id, timestamp, is_group, is_read, is_from_me,        *)
(* content]; the single-session gateway reads the same values under        *)
(* message["source"]["chat" | "is_group" | "is_from_me"].  Timestamps are  *)
(* compared as the JSON values they arrive as; they are modelled by        *)
(* integers.  content is [text, type] where text is one of:                *)

Missing == [json |-> "missing"]              \* no "text" key in content
Null == [json |-> "null"]                    \* "text": null, Python None
Str(t) == [json |-> "string", s |-> t]       \* "text": "..."

\* f"[{message['content']['type']}]"
Label(type) ==
    Str(CASE type = "text" -> "[text]"
          [] type = "image" -> "[image]"
          [] type = "video" -> "[video]"
          [] type = "audio" -> "[audio]")

\* message["content"].get("text", f"[{message['content']['type']}]")
latest_message_multi(content) ==
    IF content.text = Missing THEN Returned(Label(content.type))
    ELSE Returned(content.text)

\* message["content"]["text"] or f"[{message['content']['type']}]"
latest_message_single(content) ==
    IF content.text = Missing THEN Unhandled("KeyError")
    ELSE IF content.text = Null \/ content.text = Str("")
         THEN Returned(Label(content.type))
    ELSE Returned(content.text)

latest_message(gw, content) ==
    IF gw = "multi" THEN latest_message_multi(content)
    ELSE latest_message_single(content)

\* position of chat_id in the dict chats (insertion order), 0 when absent
IndexOf(chats, chat_id) ==
    IF \E i \in 1..Len(chats) : chats[i].chat_id = chat_id
    THEN CHOOSE i \in 1..Len(chats) : chats[i].chat_id = chat_id
    ELSE 0

\* a later message replaces the entry whatever its timestamp
IsNewer_always(m, entry) == TRUE

\* a message with the same timestamp replaces the entry too
IsNewer_orEqual(m, entry) == m.timestamp >= entry.latest_timestamp

\* message["timestamp"] > chats[chat_id]["latest_timestamp"]
IsNewer(m, entry) == m.timestamp > entry.latest_timestamp

\* first loop: group messages by chat and keep the latest of each
RECURSIVE get_chats_group(_, _, _)
get_chats_group(gw, msgs, chats) ==
    IF msgs = <<>> THEN Returned(chats)
    ELSE LET message == Head(msgs)
             i == IndexOf(chats, message.chat_id)
         IN  IF i = 0 \/ IsNewer(message, chats[i])
             THEN LET text == latest_message(gw, message.content)
                      entry == [chat_id |-> message.chat_id,
                                is_group |-> message.is_group,
                                latest_message |-> text.value,
                                latest_timestamp |-> message.timestamp,
                                unread_count |-> 0]
                  IN  IF text.tag # "return" THEN text
                      ELSE get_chats_group(gw, Tail(msgs),
                               IF i = 0 THEN Append(chats, entry)
                               ELSE [chats EXCEPT ![i] = entry])
             ELSE get_chats_group(gw, Tail(msgs), chats)

\* the second loop counting every unread message, whoever sent it
RECURSIVE get_chats_count_anySender(_, _)
get_chats_count_anySender(msgs, chats) ==
    IF msgs = <<>> THEN chats
    ELSE LET message == Head(msgs)
             i == IndexOf(chats, message.chat_id)
         IN  IF ~message.is_read
             THEN get_chats_count_anySender(Tail(msgs),
                      [chats EXCEPT ![i].unread_count = @ + 1])
             ELSE get_chats_count_anySender(Tail(msgs), chats)

\* second loop: count unread messages
RECURSIVE get_chats_count(_, _)
get_chats_count(msgs, chats) ==
    IF msgs = <<>> THEN chats
    ELSE LET message == Head(msgs)
             i == IndexOf(chats, message.chat_id)
         IN  IF ~message.is_read /\ ~message.is_from_me
             THEN get_chats_count(Tail(msgs),
                      [chats EXCEPT ![i].unread_count = @ + 1])
             ELSE get_chats_count(Tail(msgs), chats)

\* both loops, then {"chats": list(chats.values())}
get_chats_aggregate(gw, msgs) ==
    LET grouped == get_chats_group(gw, msgs, <<>>)
    IN  IF grouped.tag # "return" THEN grouped
        ELSE Returned(get_chats_count(msgs, grouped.value))

get_chats(resp) ==
    IF resp.status_code = 200 THEN get_chats_aggregate("multi", resp.messages)
    ELSE IF resp.status_code = 404 THEN HTTPException(404, "Session not found")
    ELSE HTTPException(500, "Failed to get chats")

----------------------------------------------------------------------------
(* Single-session gateway: what each handler does with the response        *)

get_qr_code_single(resp) ==
    IF resp.status_code = 200 THEN Returned(JsonDict(resp))
    ELSE IF resp.status_code = 400 THEN HTTPException(400, "Already authenticated")
    ELSE IF resp.status_code = 408 THEN HTTPException(408, "QR generation timeout")
    ELSE HTTPException(500, "Failed to get QR code")

get_auth_status_single(resp) ==
    IF resp.status_code = 200 THEN Returned(JsonDict(resp))
    ELSE HTTPException(500, "Failed to get auth status")

logout_single(resp) ==
    IF resp.status_code = 200 THEN Returned("Logged out successfully")
    ELSE IF resp.status_code = 400 THEN HTTPException(400, "Not authenticated")
    ELSE HTTPException(500, "Failed to logout")

pair_phone_single(resp) ==
    IF resp.status_code = 200 THEN Returned(JsonDict(resp))
    ELSE IF resp.status_code = 400
         THEN IF Contains(resp.text, "Already authenticated")
              THEN HTTPException(400, "Already authenticated")
              ELSE IF Contains(resp.text, "Phone number is required")
                   THEN HTTPException(400, "Phone number is required")
                   ELSE HTTPException(400, "Invalid phone number format")
    ELSE HTTPException(500, "Failed to generate pairing code")

get_messages_single(resp) ==
    IF resp.status_code = 200 THEN Returned(JsonDict(resp))
    ELSE IF resp.status_code = 401 THEN HTTPException(401, "Not authenticated")
    ELSE HTTPException(500, "Failed to get messages")

get_chat_messages_single(resp) ==
    IF resp.status_code = 200 THEN Returned(JsonDict(resp))
    ELSE IF resp.status_code = 401 THEN HTTPException(401, "Not authenticated")
    ELSE HTTPException(500, "Failed to get chat messages")

update_read_status_single(resp) ==
    IF resp.status_code = 200 THEN Returned("Read status updated successfully")
    ELSE IF resp.status_code = 401 THEN HTTPException(401, "Not authenticated")
    ELSE IF resp.status_code = 404 THEN HTTPException(404, "Message not found")
    ELSE IF resp.status_code = 400 THEN HTTPException(400, "Invalid request")
    ELSE HTTPException(500, "Failed to update read status")

get_chats_single(resp) ==
    IF resp.status_code = 200 THEN get_chats_aggregate("single", resp.messages)
    ELSE IF resp.status_code = 401 THEN HTTPException(401, "Not authenticated")
    ELSE HTTPException(500, "Failed to get chats")

\* health_check of either gateway: the probe's status decides the report
health_check(resp) ==
    IF resp.status_code = 200 THEN Returned("healthy")
    ELSE Returned("degraded")

\* except Exception in health_check
health_check_except == Returned("unhealthy")

----------------------------------------------------------------------------
(* Routes of the two gateways                                              *)

\* handlers of the multi-session gateway with a phone parameter
MultiPhoneHandlers ==
    {"create_session", "get_session_status", "connect_session",
     "disconnect_session", "delete_session", "get_qr_code", "get_auth_status",
     "pair_phone", "get_messages", "get_chat_messages", "update_read_status",
     "get_unread_count", "get_chats"}

\* the /sessions/{phone}... handlers among them
SessionScoped == MultiPhoneHandlers \ {"create_session"}

LegacyHandlers == {"legacy_get_auth_status", "legacy_get_messages"}

MultiHandlers ==
    MultiPhoneHandlers \cup LegacyHandlers \cup {"list_sessions", "health_check"}

SingleHandlers ==
    {"health_check", "get_qr_code", "get_auth_status", "logout", "pair_phone",
     "get_messages", "get_chat_messages", "update_read_status", "get_chats"}

Handlers(gw) == IF gw = "multi" THEN MultiHandlers ELSE SingleHandlers

\* the request carries a phone number (path parameter or body field)
TakesPhone(gw, h) ==
    \/ gw = "multi" /\ h \in MultiPhoneHandlers
    \/ gw = "single" /\ h = "pair_phone"

\* get_chats forwards the phone as it came
ValidatesPhone_notChats(gw, h) ==
    gw = "multi" /\ h \in MultiPhoneHandlers \ {"get_chats"}

\* the handler starts with phone = validate_phone_number(phone)
ValidatesPhone(gw, h) == gw = "multi" /\ h \in MultiPhoneHandlers

TakesChatId(h) == h = "get_chat_messages"

\* the function a legacy handler hands the first phone number to
Delegate(h) ==
    IF h = "legacy_get_auth_status" THEN "get_auth_status" ELSE "get_messages"

Call(m, p, b) == [method |-> m, path |-> p, body |-> b]

NoBody == <<>>

\* the request each handler sends to GO_SERVICE_URL
BackendCallMulti(fn, phone, chat_id) ==
    CASE fn = "create_session" -> Call("POST", <<"sessions", "create">>, phone)
      [] fn = "list_sessions" -> Call("GET", <<"sessions", "list">>, NoBody)
      [] fn = "health_check" -> Call("GET", <<"sessions", "list">>, NoBody)
      [] fn = "get_session_status" ->
            Call("GET", <<"sessions", phone, "status">>, NoBody)
      [] fn = "connect_session" ->
            Call("POST", <<"sessions", phone, "connect">>, NoBody)
      [] fn = "disconnect_session" ->
            Call("POST", <<"sessions", phone, "disconnect">>, NoBody)
      [] fn = "delete_session" ->
            Call("DELETE", <<"sessions", phone, "delete">>, NoBody)
      [] fn = "get_qr_code" -> Call("GET", <<"sessions", phone, "qr">>, NoBody)
      [] fn = "get_auth_status" ->
            Call("GET", <<"sessions", phone, "auth", "status">>, NoBody)
      [] fn = "pair_phone" ->
            Call("POST", <<"sessions", phone, "auth", "pair-phone">>, phone)
      [] fn = "get_messages" ->
            Call("GET", <<"sessions", phone, "messages">>, NoBody)
      [] fn = "get_chat_messages" ->
            Call("GET", <<"sessions", phone, "messages", chat_id>>, NoBody)
      [] fn = "update_read_status" ->
            Call("POST", <<"sessions", phone, "messages", "read-status">>, NoBody)
      [] fn = "get_unread_count" ->
            Call("GET", <<"sessions", phone, "messages", "unread-count">>, NoBody)
      [] fn = "get_chats" ->
            Call("GET", <<"sessions", phone, "messages">>, NoBody)

BackendCallSingle(fn, phone, chat_id) ==
    CASE fn = "health_check" -> Call("GET", <<"auth", "status">>, NoBody)
      [] fn = "get_qr_code" -> Call("GET", <<"qr">>, NoBody)
      [] fn = "get_auth_status" -> Call("GET", <<"auth", "status">>, NoBody)
      [] fn = "logout" -> Call("POST", <<"auth", "logout">>, NoBody)
      [] fn = "pair_phone" -> Call("POST", <<"auth", "pair-phone">>, phone)
      [] fn = "get_messages" -> Call("GET", <<"messages">>, NoBody)
      [] fn = "get_chat_messages" -> Call("GET", <<"messages", chat_id>>, NoBody)
      [] fn = "update_read_status" ->
            Call("POST", <<"messages", "read-status">>, NoBody)
      [] fn = "get_chats" -> Call("GET", <<"messages">>, NoBody)

BackendCall(gw, fn, phone, chat_id) ==
    IF gw = "multi" THEN BackendCallMulti(fn, phone, chat_id)
    ELSE BackendCallSingle(fn, phone, chat_id)

\* the if / elif chain on response.status_code of the function fn
TranslateMulti(fn, resp) ==
    CASE fn = "create_session" -> create_session(resp)
      [] fn = "list_sessions" -> list_sessions(resp)
      [] fn = "health_check" -> health_check(resp)
      [] fn = "get_session_status" -> get_session_status(resp)
      [] fn = "connect_session" -> connect_session(resp)
      [] fn = "disconnect_session" -> disconnect_session(resp)
      [] fn = "delete_session" -> delete_session(resp)
      [] fn = "get_qr_code" -> get_qr_code(resp)
      [] fn = "get_auth_status" -> get_auth_status(resp)
      [] fn = "pair_phone" -> pair_phone(resp)
      [] fn = "get_messages" -> get_messages(resp)
      [] fn = "get_chat_messages" -> get_chat_messages(resp)
      [] fn = "update_read_status" -> update_read_status(resp)
      [] fn = "get_unread_count" -> get_unread_count(resp)
      [] fn = "get_chats" -> get_chats(resp)

TranslateSingle(fn, resp) ==
    CASE fn = "health_check" -> health_check(resp)
      [] fn = "get_qr_code" -> get_qr_code_single(resp)
      [] fn = "get_auth_status" -> get_auth_status_single(resp)
      [] fn = "logout" -> logout_single(resp)
      [] fn = "pair_phone" -> pair_phone_single(resp)
      [] fn = "get_messages" -> get_messages_single(resp)
      [] fn = "get_chat_messages" -> get_chat_messages_single(resp)
      [] fn = "update_read_status" -> update_read_status_single(resp)
      [] fn = "get_chats" -> get_chats_single(resp)

\* what the function fn makes of the reply to its call: the try block on a
\* response, the except clause on a transport failure
AfterAwait(gw, fn, reply) ==
    IF reply.tag = "RequestError"
    THEN IF fn = "health_check" THEN health_check_except ELSE OnRequestError
    ELSE IF gw = "multi" THEN TranslateMulti(fn, reply)
         ELSE TranslateSingle(fn, reply)

----------------------------------------------------------------------------
(* Inputs of the gateway specification                                     *)

Phone12 == <<"+", "1", "2">>
Phone447 == <<"+", "4", "4", "7">>

\* identifiers a client sends: canonical, with 00 and separators, malformed
RawPhones ==
    {Phone12, <<"0", "0", "4", "4", " ", "7">>, <<"a", "b", "c">>, <<"1">>}

ChatIds == {"chat-a", "unread-count"}

\* "sessions" lists the backend answers /sessions/list with
SessionLists ==
    {<<>>, <<[phone_number |-> Phone12]>>,
     <<[phone_number |-> Phone447], [phone_number |-> Phone12]>>}

Chats == {"a", "b"}

\* is_read, is_from_me, is_group and content of a message
Flavours ==
    {[is_read |-> FALSE, is_from_me |-> FALSE, is_group |-> FALSE,
      content |-> [text |-> Str("hi"), type |-> "text"]],
     [is_read |-> TRUE, is_from_me |-> FALSE, is_group |-> TRUE,
      content |-> [text |-> Missing, type |-> "image"]],
     [is_read |-> FALSE, is_from_me |-> TRUE, is_group |-> FALSE,
      content |-> [text |-> Null, type |-> "video"]],
     [is_read |-> TRUE, is_from_me |-> TRUE, is_group |-> TRUE,
      content |-> [text |-> Str(""), type |-> "audio"]]}

Msg(c, t, f) ==
    [chat_id |-> c, timestamp |-> t, is_group |-> f.is_group,
     is_read |-> f.is_read, is_from_me |-> f.is_from_me, content |-> f.content]

Messages == {Msg(c, t, f) : c \in Chats, t \in 1..MaxTs, f \in Flavours}

\* "messages" lists the backend answers a get_chats call with in Spec
SampleMessageLists ==
    {<<>>} \cup {<<m>> : m \in {x \in Messages : x.chat_id = "a" /\ x.timestamp = 1}}

Response(code, text, sessions, msgs) ==
    [tag |-> "response", status_code |-> code, text |-> text,
     sessions |-> sessions, messages |-> msgs]

RequestError == [tag |-> "RequestError"]

IsListCall(call) == call.path = <<"sessions", "list">>

----------------------------------------------------------------------------
(* Spec: one request through a gateway                                     *)

Init ==
    /\ NormIdle
    /\ GatewayIdle
    /\ ChatsIdle

Finish(o) ==
    /\ outcome' = o
    /\ pc' = "done"

Issue(fn, call) ==
    /\ current' = fn
    /\ calls' = Append(calls, call)
    /\ pc' = "awaiting"
    /\ outcome' = outcome

\* a handler other than the legacy ones, from its first statement up to its
\* await on the backend call
ReceiveRequest ==
    /\ pc = "idle"
    /\ \E gw \in {"multi", "single"} :
       \E h \in Handlers(gw) \ LegacyHandlers :
       \E raw \in (IF TakesPhone(gw, h) THEN RawPhones ELSE {<<>>}) :
       \E chat \in (IF TakesChatId(h) THEN ChatIds ELSE {"none"}) :
          /\ gateway' = gw
          /\ handler' = h
          /\ rawPhone' = raw
          /\ chatId' = chat
          /\ IF ValidatesPhone(gw, h)
             THEN LET v == validate_phone_number(raw)
                  IN  IF v.tag = "raise"
                      THEN Finish(v) /\ current' = h /\ calls' = calls
                      ELSE Issue(h, BackendCall(gw, h, v.value, chat))
             ELSE Issue(h, BackendCall(gw, h, raw, chat))
    /\ UNCHANGED <<replies, request>>
    /\ UNCHANGED normVars /\ UNCHANGED chatVars

\* a legacy handler up to its await on list_sessions()
ReceiveLegacy ==
    /\ pc = "idle"
    /\ \E h \in LegacyHandlers :
          /\ gateway' = "multi"
          /\ handler' = h
          /\ Issue("list_sessions", BackendCall("multi", "list_sessions", <<>>, "none"))
    /\ rawPhone' = <<>>
    /\ chatId' = "none"
    /\ UNCHANGED <<replies, request>>
    /\ UNCHANGED normVars /\ UNCHANGED chatVars

\* the backend answers the call in flight
BackendResponds ==
    /\ pc = "awaiting"
    /\ \E code \in StatusCodes :
       \E text \in SUBSET Phrases :
       \E sessions \in (IF IsListCall(calls[Len(calls)]) /\ code = 200
                        THEN SessionLists ELSE {<<>>}) :
       \E msgs \in (IF current = "get_chats" /\ code = 200
                    THEN SampleMessageLists ELSE {<<>>}) :
          replies' = Append(replies, Response(code, text, sessions, msgs))
    /\ pc' = "replied"
    /\ UNCHANGED <<gateway, handler, current, rawPhone, chatId, request, calls, outcome>>
    /\ UNCHANGED normVars /\ UNCHANGED chatVars

\* the call in flight fails in the transport: httpx raises a RequestError
BackendUnreachable ==
    /\ pc = "awaiting"
    /\ replies' = Append(replies, RequestError)
    /\ pc' = "replied"
    /\ UNCHANGED <<gateway, handler, current, rawPhone, chatId, request, calls, outcome>>
    /\ UNCHANGED normVars /\ UNCHANGED chatVars

\* the function whose call was in flight runs to its end; its result is the
\* result of the request
Complete ==
    /\ pc = "replied"
    /\ ~(handler \in LegacyHandlers /\ current = "list_sessions")
    /\ Finish(AfterAwait(gateway, current, replies[Len(replies)]))
    /\ UNCHANGED <<gateway, handler, current, rawPhone, chatId, request, calls, replies>>
    /\ UNCHANGED normVars /\ UNCHANGED chatVars

\* a legacy handler after list_sessions() came back
LegacyAfterList ==
    /\ pc = "replied"
    /\ handler \in LegacyHandlers /\ current = "list_sessions"
    /\ LET sessions_response == AfterAwait(gateway, current, replies[Len(replies)])
       IN  IF sessions_response.tag # "return"
           THEN Finish(sessions_response) /\ UNCHANGED <<current, calls>>
           ELSE IF ~HasSessionsAttr(sessions_response.value)
           THEN Finish(Unhandled("AttributeError")) /\ UNCHANGED <<current, calls>>
           ELSE IF sessions_response.value.sessions = <<>>
           THEN /\ Finish(HTTPException(404, "No sessions available"))
                /\ UNCHANGED <<current, calls>>
           ELSE LET first_phone == sessions_response.value.sessions[1].phone_number
                    v == validate_phone_number(first_phone)
                IN  IF v.tag = "raise"
                    THEN Finish(v) /\ UNCHANGED <<current, calls>>
                    ELSE Issue(Delegate(handler),
                               BackendCall(gateway, Delegate(handler), v.value, "none"))
    /\ UNCHANGED <<gateway, handler, rawPhone, chatId, request, replies>>
    /\ UNCHANGED normVars /\ UNCHANGED chatVars

----------------------------------------------------------------------------
(* Routing of the multi-session gateway                                    *)
(* The framework tries the routes in the order the decorators declare them *)
(* and dispatches to the first whose method and path both match; a path    *)
(* parameter matches any one segment.                                      *)

Lit(w) == [kind |-> "lit", w |-> w]
Param(n) == [kind |-> "param", name |-> n]

\* segments of a request path: a plain word, or a phone number
Word(w) == [kind |-> "word", w |-> w]
PhoneSeg(p) == [kind |-> "phone", p |-> p]

RouteOf(m, pattern, fn) == [method |-> m, pattern |-> pattern, fn |-> fn]

\* the @app.get / @app.post / @app.delete decorators, in declaration order
RoutesMulti ==
    <<RouteOf("GET", <<>>, "root"),
      RouteOf("GET", <<Lit("health")>>, "health_check"),
      RouteOf("POST", <<Lit("sessions"), Lit("create")>>, "create_session"),
      RouteOf("GET", <<Lit("sessions"), Lit("list")>>, "list_sessions"),
      RouteOf("GET", <<Lit("sessions"), Param("phone"), Lit("status")>>,
              "get_session_status"),
      RouteOf("POST", <<Lit("sessions"), Param("phone"), Lit("connect")>>,
              "connect_session"),
      RouteOf("POST", <<Lit("sessions"), Param("phone"), Lit("disconnect")>>,
              "disconnect_session"),
      RouteOf("DELETE", <<Lit("sessions"), Param("phone")>>, "delete_session"),
      RouteOf("GET", <<Lit("sessions"), Param("phone"), Lit("auth"), Lit("qr")>>,
              "get_qr_code"),
      RouteOf("GET", <<Lit("sessions"), Param("phone"), Lit("auth"), Lit("status")>>,
              "get_auth_status"),
      RouteOf("POST", <<Lit("sessions"), Param("phone"), Lit("auth"),
                        Lit("pair-phone")>>, "pair_phone"),
      RouteOf("GET", <<Lit("sessions"), Param("phone"), Lit("messages")>>,
              "get_messages"),
      RouteOf("GET", <<Lit("sessions"), Param("phone"), Lit("messages"),
                       Param("chat_id")>>, "get_chat_messages"),
      RouteOf("POST", <<Lit("sessions"), Param("phone"), Lit("messages"),
                        Lit("read-status")>>, "update_read_status"),
      RouteOf("GET", <<Lit("sessions"), Param("phone"), Lit("messages"),
                       Lit("unread-count")>>, "get_unread_count"),
      RouteOf("GET", <<Lit("sessions"), Param("phone"), Lit("chats")>>,
              "get_chats"),
      RouteOf("GET", <<Lit("auth"), Lit("status")>>, "legacy_get_auth_status"),
      RouteOf("GET", <<Lit("messages")>>, "legacy_get_messages")>>

SegMatches(pat, seg) ==
    pat.kind = "param" \/ (seg.kind = "word" /\ seg.w = pat.w)

Matches(route, req) ==
    /\ route.method = req.method
    /\ Len(route.pattern) = Len(req.path)
    /\ \A k \in 1..Len(req.path) : SegMatches(route.pattern[k], req.path[k])

\* index of the route that handles the request, 0 when none does
Route(req) ==
    LET full == {i \in 1..Len(RoutesMulti) : Matches(RoutesMulti[i], req)}
    IN  IF full = {} THEN 0
        ELSE CHOOSE i \in full : \A j \in full : i <= j

SegValue(seg) == IF seg.kind = "phone" THEN seg.p ELSE seg.w

\* the value the route binds to the path parameter name, absent otherwise
PathParam(route, req, name, absent) ==
    LET at == {k \in 1..Len(route.pattern) :
                  route.pattern[k] = Param(name)}
    IN  IF at = {} THEN absent
        ELSE SegValue(req.path[CHOOSE k \in at : TRUE])

\* the request a client sends to reach the route: its pattern with the
\* parameters filled in
Instantiate(route, phone, chat_id) ==
    [method |-> route.method,
     path |-> [k \in 1..Len(route.pattern) |->
                  IF route.pattern[k].kind = "lit"
                  THEN Word(route.pattern[k].w)
                  ELSE IF route.pattern[k].name = "phone"
                       THEN PhoneSeg(phone)
                       ELSE Word(chat_id)]]

\* requests for the /sessions/{phone}... routes
HttpRequests ==
    {Instantiate(RoutesMulti[i], phone, chat_id) :
        i \in {j \in 1..Len(RoutesMulti) : RoutesMulti[j].fn \in SessionScoped},
        phone \in RawPhones, chat_id \in ChatIds}

\* an HTTP request for a /sessions/{phone}... path reaches the gateway: the
\* router picks the handler, which runs up to its await on the backend call
ReceiveHttp ==
    /\ pc = "idle"
    /\ \E req \in HttpRequests :
          LET route == RoutesMulti[Route(req)]
              h == route.fn
              raw == PathParam(route, req, "phone", <<>>)
              chat == PathParam(route, req, "chat_id", "none")
          IN  /\ Route(req) # 0
              /\ request' = req
              /\ gateway' = "multi"
              /\ handler' = h
              /\ rawPhone' = raw
              /\ chatId' = chat
              /\ IF ValidatesPhone("multi", h)
                 THEN LET v == validate_phone_number(raw)
                      IN  IF v.tag = "raise"
                          THEN Finish(v) /\ current' = h /\ calls' = calls
                          ELSE Issue(h, BackendCall("multi", h, v.value, chat))
                 ELSE Issue(h, BackendCall("multi", h, raw, chat))
    /\ UNCHANGED replies
    /\ UNCHANGED normVars /\ UNCHANGED chatVars

Next ==
    \/ ReceiveRequest
    \/ ReceiveHttp
    \/ ReceiveLegacy
    \/ BackendResponds
    \/ BackendUnreachable
    \/ Complete
    \/ LegacyAfterList

Spec == Init /\ [][Next]_vars

----------------------------------------------------------------------------
(* SpecChats: get_chats on bounded message lists                           *)

InitChats ==
    /\ NormIdle
    /\ GatewayIdle
    /\ messages \in BoundedSeq(Messages, MaxMsgs)
    /\ chatsGateway \in {"multi", "single"}
    /\ chatsResult = None

\* the 200 branch of get_chats on a response carrying the messages
RunGetChats ==
    /\ chatsResult = None
    /\ chatsResult' =
          IF chatsGateway = "multi"
          THEN get_chats(Response(200, {}, <<>>, messages))
          ELSE get_chats_single(Response(200, {}, <<>>, messages))
    /\ UNCHANGED <<messages, chatsGateway>>
    /\ UNCHANGED normVars /\ UNCHANGED gwVars

NextChats == RunGetChats

SpecChats == InitChats /\ [][NextChats]_vars

----------------------------------------------------------------------------
(* Properties of the gateways                                              *)

Done == pc = "done"

LastReply == replies[Len(replies)]

Answered == Done /\ replies # <<>> /\ LastReply.tag = "response"

InvalidFormat == HTTPException(400, "Invalid international phone number format")

\* C3: in create_session and every /sessions/{phone}/... handler of the
\* multi-session gateway, an identifier that fails validation ends the
\* request with HTTP 400 and no backend call is ever issued for it.
C3_InvalidBeforeBackend ==
    (/\ gateway = "multi"
     /\ handler \in MultiPhoneHandlers
     /\ validate_phone_number(rawPhone).tag = "raise")
    => (Done /\ outcome = InvalidFormat /\ calls = <<>> /\ replies = <<>>)

\* get_chats received a malformed identifier
C3_Witness ==
    /\ gateway = "multi"
    /\ handler = "get_chats"
    /\ rawPhone = <<"a", "b", "c">>
    /\ Done
    /\ outcome = InvalidFormat

ListedEmpty ==
    /\ handler \in LegacyHandlers
    /\ replies # <<>>
    /\ replies[1].tag = "response"
    /\ replies[1].status_code = 200
    /\ replies[1].sessions = <<>>

ListedSome ==
    /\ handler \in LegacyHandlers
    /\ replies # <<>>
    /\ replies[1].tag = "response"
    /\ replies[1].status_code = 200
    /\ replies[1].sessions # <<>>

\* C4: a legacy handler whose session-list call succeeds with an empty list
\* ends with HTTP 404 "No sessions available" after exactly one backend
\* call, the session-list call.
C4_LegacyEmptyIsNotFound ==
    (Done /\ ListedEmpty) =>
        /\ outcome = HTTPException(404, "No sessions available")
        /\ Len(calls) = 1
        /\ IsListCall(calls[1])

\* C5: a legacy handler whose session-list call succeeds with a non-empty
\* list performs exactly two backend calls, the session-list call and then
\* the session-scoped call for the first listed phone number, and its
\* outcome is the outcome of that second call.
C5_LegacyDelegates ==
    (Done /\ ListedSome) =>
        /\ Len(calls) = 2
        /\ Len(replies) = 2
        /\ IsListCall(calls[1])
        /\ calls[2] = BackendCall("multi", Delegate(handler),
                                  replies[1].sessions[1].phone_number, "none")
        /\ outcome = AfterAwait("multi", Delegate(handler), replies[2])

\* C6: outside the health check, a backend call that fails in the transport
\* is the last call of its request (no retry, no further call) and the
\* request ends with HTTP 503.
C6_TransportFailureIs503 ==
    \A i \in 1..Len(replies) :
        (replies[i].tag = "RequestError" /\ handler # "health_check") =>
            /\ i = Len(calls)
            /\ pc \in {"replied", "done"}
            /\ Done => outcome = HTTPException(503, "Go service unavailable")

\* get_messages of the single-session gateway met a transport failure
C6_Witness ==
    /\ gateway = "single"
    /\ handler = "get_messages"
    /\ Done
    /\ replies = <<RequestError>>
    /\ Len(calls) = 1

\* the status codes a handler has a branch for
NamedCodes(gw, fn) ==
    IF gw = "multi"
    THEN CASE fn \in {"create_session", "list_sessions"} -> {200}
           [] fn \in {"get_qr_code", "pair_phone", "update_read_status"} ->
                 {200, 400, 404}
           [] OTHER -> {200, 404}
    ELSE CASE fn = "get_auth_status" -> {200}
           [] fn = "get_qr_code" -> {200, 400, 408}
           [] fn \in {"logout", "pair_phone"} -> {200, 400}
           [] fn = "update_read_status" -> {200, 400, 401, 404}
           [] OTHER -> {200, 401}

\* C7: outside the health check, a request whose backend call was answered
\* has exactly one outcome; it is a success only when the backend status
\* was 200, and a status the handler has no branch for gives HTTP 500.
C7_TranslationTotal ==
    (Answered /\ handler # "health_check") =>
        /\ outcome.tag \in {"return", "raise", "unhandled"}
        /\ outcome.tag = "return" =>
              \A i \in 1..Len(replies) : replies[i].status_code = 200
        /\ LastReply.status_code \notin NamedCodes(gateway, current) =>
              (outcome.tag = "raise" /\ outcome.status_code = 500)

\* update_read_status was answered 201, which it has no branch for
C7_Witness ==
    /\ Answered
    /\ gateway = "multi"
    /\ handler = "update_read_status"
    /\ LastReply.status_code = 201
    /\ HttpStatus(outcome) = 500

\* the pair-phone table as the specification states it for both gateways
PairPhoneStated(resp, o) ==
    IF resp.status_code = 200 THEN o.tag = "return"
    ELSE IF resp.status_code = 400
    THEN IF Contains(resp.text, "Already authenticated")
         THEN o = HTTPException(400, "Already authenticated")
         ELSE IF Contains(resp.text, "Phone number is required")
              THEN o = HTTPException(400, "Phone number is required")
              ELSE o = HTTPException(400, "Invalid phone number format")
    ELSE IF resp.status_code = 404
    THEN o.tag = "raise" /\ o.status_code = 404
    ELSE o.tag = "raise" /\ o.status_code = 500

\* C8 as stated: pair_phone of both gateways follows the stated table.
C8_PairPhoneAsStated ==
    (Answered /\ handler = "pair_phone") => PairPhoneStated(LastReply, outcome)

\* C8: pair_phone of the single-session gateway follows the stated table
\* except that 404, like every status other than 200 and 400, gives HTTP
\* 500; pair_phone of the multi-session gateway gives success on 200,
\* "Already authenticated" on 400 with that phrase, 400 "Failed to generate
\* pairing code" on every other 400, 404 on 404 and 500 otherwise.
C8_PairPhone ==
    (Answered /\ handler = "pair_phone") =>
        LET code == LastReply.status_code
            already == "Already authenticated" \in LastReply.text
            required == "Phone number is required" \in LastReply.text
            detail400 ==
                IF already THEN "Already authenticated"
                ELSE IF gateway = "multi" THEN "Failed to generate pairing code"
                ELSE IF required THEN "Phone number is required"
                ELSE "Invalid phone number format"
        IN  /\ code = 200 => outcome.tag = "return"
            /\ code = 400 => outcome = HTTPException(400, detail400)
            /\ (code = 404 /\ gateway = "multi") =>
                  (outcome.tag = "raise" /\ outcome.status_code = 404)
            /\ (code \notin {200, 400} /\ ~(code = 404 /\ gateway = "multi")) =>
                  (outcome.tag = "raise" /\ outcome.status_code = 500)

\* the multi-session pair_phone was answered 400 "Phone number is required"
C8_Witness ==
    /\ Answered
    /\ gateway = "multi"
    /\ handler = "pair_phone"
    /\ LastReply.status_code = 400
    /\ LastReply.text = {"Phone number is required"}
    /\ outcome = HTTPException(400, "Failed to generate pairing code")

\* C9: in every /sessions/{phone}/... handler of the multi-session gateway
\* a backend status of 404 gives HTTP 404, whatever the body.
C9_NotFoundWins ==
    (/\ Answered
     /\ gateway = "multi"
     /\ current \in SessionScoped
     /\ LastReply.status_code = 404)
    => (outcome.tag = "raise" /\ outcome.status_code = 404)

\* get_qr_code, which also has a 400 branch, was answered 404 with a body
\* that holds both phrases
C9_Witness ==
    /\ Answered
    /\ gateway = "multi"
    /\ handler = "get_qr_code"
    /\ LastReply.status_code = 404
    /\ LastReply.text = Phrases
    /\ HttpStatus(outcome) = 404

----------------------------------------------------------------------------
(* Properties of get_chats                                                 *)

TimestampsOf(msgs, c) ==
    {msgs[i].timestamp : i \in {j \in 1..Len(msgs) : msgs[j].chat_id = c}}

Max(S) == CHOOSE x \in S : \A y \in S : y <= x

ChatsIn(msgs) == {msgs[i].chat_id : i \in 1..Len(msgs)}

\* C10: in the summaries get_chats returns, every chat of the input has one
\* entry and its latest_timestamp is the greatest timestamp among the
\* chat's messages, in whatever order the messages arrive.
C10_LatestIsMax ==
    (chatsResult # None /\ chatsResult.tag = "return") =>
        \A c \in ChatsIn(messages) :
            /\ Cardinality({i \in 1..Len(chatsResult.value) :
                               chatsResult.value[i].chat_id = c}) = 1
            /\ \A i \in 1..Len(chatsResult.value) :
                  chatsResult.value[i].chat_id = c =>
                     chatsResult.value[i].latest_timestamp
                        = Max(TimestampsOf(messages, c))

\* three messages of one chat arrived with timestamps in the order 2, 3, 1
C10_Witness ==
    /\ chatsResult # None
    /\ chatsResult.tag = "return"
    /\ Len(messages) = 3
    /\ \A i \in 1..3 : messages[i].chat_id = "a"
    /\ messages[1].timestamp = 2
    /\ messages[2].timestamp = 3
    /\ messages[3].timestamp = 1
    /\ chatsResult.value[1].latest_timestamp = 3

UnreadOf(msgs, c) ==
    {i \in 1..Len(msgs) :
        msgs[i].chat_id = c /\ ~msgs[i].is_read /\ ~msgs[i].is_from_me}

\* C11: in the summaries get_chats returns, each chat's unread_count is the
\* number of the chat's messages with is_read false and is_from_me false,
\* wherever they stand relative to the latest message; a message with
\* is_from_me true adds nothing.
C11_UnreadCount ==
    (chatsResult # None /\ chatsResult.tag = "return") =>
        \A i \in 1..Len(chatsResult.value) :
            chatsResult.value[i].unread_count
                = Cardinality(UnreadOf(messages, chatsResult.value[i].chat_id))

\* the latest message of the chat came first and was read; an unread
\* incoming one and an unread outgoing one followed it
C11_Witness ==
    /\ chatsResult # None
    /\ chatsResult.tag = "return"
    /\ Len(messages) = 3
    /\ \A i \in 1..3 : messages[i].chat_id = "a"
    /\ messages[1].timestamp = 3 /\ messages[1].is_read
    /\ messages[2].timestamp = 1
    /\ ~messages[2].is_read /\ ~messages[2].is_from_me
    /\ messages[3].timestamp = 2
    /\ ~messages[3].is_read /\ messages[3].is_from_me
    /\ chatsResult.value[1].unread_count = 1

\* what the summary is to show for a content: its text when it has one,
\* the bracketed type otherwise
Display(content) ==
    IF content.text.json = "string" /\ content.text # Str("")
    THEN content.text
    ELSE Label(content.type)

\* C13: in the summaries get_chats returns, latest_message is the text of
\* the chat's latest message when its content has text, and the bracketed
\* type label when it has none: text key absent, null or empty.
C13_LatestMessageText ==
    (chatsResult # None /\ chatsResult.tag = "return") =>
        \A k \in 1..Len(chatsResult.value) :
            \E i \in 1..Len(messages) :
                /\ messages[i].chat_id = chatsResult.value[k].chat_id
                /\ messages[i].timestamp = chatsResult.value[k].latest_timestamp
                /\ chatsResult.value[k].latest_message = Display(messages[i].content)

\* the first message of chat c that carries the chat's greatest timestamp
FirstMax(msgs, c) ==
    LET top == Max(TimestampsOf(msgs, c))
        at == {i \in 1..Len(msgs) : msgs[i].chat_id = c /\ msgs[i].timestamp = top}
    IN  CHOOSE i \in at : \A j \in at : i <= j

\* C14: when several messages of a chat share its greatest timestamp, the
\* summary's latest_message and is_group come from the first of them in
\* the input; a later message replaces the tracked one only on a strictly
\* greater timestamp.
C14_FirstSeenWinsTie ==
    (chatsResult # None /\ chatsResult.tag = "return") =>
        \A k \in 1..Len(chatsResult.value) :
            LET m == messages[FirstMax(messages, chatsResult.value[k].chat_id)]
            IN  /\ chatsResult.value[k].is_group = m.is_group
                /\ chatsResult.value[k].latest_message
                      = latest_message(chatsGateway, m.content).value

\* two messages of one chat tie on the greatest timestamp and differ in
\* is_group and in content; the summary shows the first
C14_Witness ==
    /\ chatsResult # None
    /\ chatsResult.tag = "return"
    /\ Len(messages) = 2
    /\ messages[1].chat_id = "a" /\ messages[2].chat_id = "a"
    /\ messages[1].timestamp = 2 /\ messages[2].timestamp = 2
    /\ messages[1].is_group # messages[2].is_group
    /\ messages[1].content # messages[2].content
    /\ Len(chatsResult.value) = 1
    /\ chatsResult.value[1].is_group = messages[1].is_group

IsUnreadCountRequest(req) ==
    /\ req # None
    /\ req.method = "GET"
    /\ Len(req.path) = 4
    /\ req.path[1] = Word("sessions")
    /\ req.path[2].kind = "phone"
    /\ req.path[3] = Word("messages")
    /\ req.path[4] = Word("unread-count")

\* C12: a GET request for /sessions/{phone}/messages/unread-count is handled
\* by get_unread_count, not by get_chat_messages with the chat identifier
\* "unread-count", and a valid phone leads to one backend call to the
\* session's unread-count endpoint.
C12_UnreadCountRoute ==
    IsUnreadCountRequest(request) =>
        /\ handler = "get_unread_count"
        /\ chatId = "none"
        /\ validate_phone_number(rawPhone).tag = "return" =>
              calls = <<BackendCall("multi", "get_unread_count",
                                    validate_phone_number(rawPhone).value, "none")>>

====
